---- MODULE Spec2Model ----
(***************************************************************************)
(* State-machine model of the tensorflow-yolov4 repository:                *)
(*                                                                         *)
(*   - yolov4/model/yolov4.py : the Keras network's three Decode heads and *)
(*     the final concatenation (Decode.build, Decode.call, YOLOv4.call);   *)
(*   - yolov4/tflite/__init__.py : the TFLite detector (load_tflite,       *)
(*     _predict, predict), driven by up to two caller threads.             *)
(*                                                                         *)
(* A behaviour is a run of one of the two programs (variable prog).        *)
(*                                                                         *)
(* Numbers.  Tensors are records [shape, data] with data in row-major      *)
(* order, as numpy / TensorFlow store them.  Floating point values are     *)
(* fixed point: logits, sigmoids, exponentials, anchors and xyscale are    *)
(* in thousandths (0.5 is 500); the decoded x, y, w, h are products of two *)
(* such numbers and are therefore in millionths.  float32 rounding is not  *)
(* modelled.                                                               *)
(***************************************************************************)
EXTENDS Integers, Sequences, FiniteSets, TLC

VARIABLES prog, net, det, interp, hist, th, nms

vars == <<prog, net, det, interp, hist, th, nms>>

(***************************************************************************)
(* Bounds of the model.                                                    *)
(***************************************************************************)
\* the coarsest head of the Keras network has a grid of 1..MaxGridUnit cells
MaxGridUnit == 1
\* num_classes of the Keras network ranges over 1..MaxClasses
MaxClasses == 2
\* the raw head tensors are drawn from a family indexed by 0..MaxSeed
MaxSeed == 3
\* load_tflite is called at most MaxLoads times on the detector
MaxLoads == 2

(***************************************************************************)
(* Generic helpers.                                                        *)
(***************************************************************************)
RECURSIVE Prod(_)
Prod(s) == IF s = <<>> THEN 1 ELSE Head(s) * Prod(Tail(s))

RECURSIVE Flatten(_)
Flatten(ss) == IF ss = <<>> THEN <<>> ELSE Head(ss) \o Flatten(Tail(ss))

Max(a, b) == IF a >= b THEN a ELSE b
Min(a, b) == IF a <= b THEN a ELSE b

NoValue == [unset |-> TRUE]

(***************************************************************************)
(* Framework primitives used by the source (TensorFlow / numpy).           *)
(***************************************************************************)
\* tf.range(n): 0, 1, ..., n-1
Range(n) == [i \in 1..n |-> i - 1]

\* reshape keeps the row-major data and replaces the shape
Reshape(t, shape) == [shape |-> shape, data |-> t.data]

\* numpy's reshape(t, (1, -1, stride)): the -1 is inferred, and the call
\* raises when the element count is no multiple of stride
CanReshapeRows(t, stride) == Len(t.data) % stride = 0
ReshapeRows(t, stride) ==
    [shape |-> <<1, Len(t.data) \div stride, stride>>, data |-> t.data]

\* tf.meshgrid(a, b) with the default indexing "xy": two arrays of shape
\* (len(b), len(a)); the first repeats a along the rows (X[i][j] = a[j]),
\* the second repeats b along the columns (Y[i][j] = b[i])
MeshgridIJ(a, b) ==
    LET rows == Len(b)
        cols == Len(a)
    IN  << [shape |-> <<rows, cols>>,
            data  |-> [n \in 1..(rows * cols) |-> a[((n - 1) \div cols) + 1]]],
           [shape |-> <<rows, cols>>,
            data  |-> [n \in 1..(rows * cols) |-> b[((n - 1) % cols) + 1]]] >>

Meshgrid(a, b) ==
    LET rows == Len(b)
        cols == Len(a)
    IN  << [shape |-> <<rows, cols>>,
            data  |-> [n \in 1..(rows * cols) |-> a[((n - 1) % cols) + 1]]],
           [shape |-> <<rows, cols>>,
            data  |-> [n \in 1..(rows * cols) |-> b[((n - 1) \div cols) + 1]]] >>

\* tf.stack(<<p, q>>, axis=-1): a new last axis of length 2
StackLast(pq) ==
    LET p == pq[1]
        q == pq[2]
    IN  [shape |-> p.shape \o <<2>>,
         data  |-> [n \in 1..(2 * Len(p.data)) |->
                        IF (n - 1) % 2 = 0 THEN p.data[((n - 1) \div 2) + 1]
                                           ELSE q.data[((n - 1) \div 2) + 1]]]

\* tf.tile(t, [1, 1, 1, reps, 1]) of a tensor of shape (1, g, g, 1, 2)
TileAnchorAxis(t, reps) ==
    LET inner == t.shape[5]
        total == Len(t.data) * reps
    IN  [shape |-> <<t.shape[1], t.shape[2], t.shape[3], t.shape[4] * reps, inner>>,
         data  |-> [n \in 1..total |->
                        t.data[((n - 1) \div (reps * inner)) * inner
                               + ((n - 1) % inner) + 1]]]

\* concatenation along axis 1 of tensors of shape (1, rows_i, width)
RECURSIVE SumRows(_)
SumRows(ts) == IF ts = <<>> THEN 0 ELSE Head(ts).shape[2] + SumRows(Tail(ts))

ConcatAxis1(ts) ==
    [shape |-> <<1, SumRows(ts), ts[1].shape[3]>>,
     data  |-> Flatten([i \in 1..Len(ts) |-> ts[i].data])]

\* tf.keras.activations.sigmoid on the logits the model draws its inputs
\* from, in thousandths
Sigmoid(v) ==
    CASE v = -2000 -> 119
      [] v = -1000 -> 269
      [] v = 0     -> 500
      [] v = 1000  -> 731
      [] v = 2000  -> 881

\* backend.exp on the same logits, in thousandths
Exp(v) ==
    CASE v = -2000 -> 135
      [] v = -1000 -> 368
      [] v = 0     -> 1000
      [] v = 1000  -> 2718
      [] v = 2000  -> 7389

Logits == <<-2000, -1000, 0, 1000, 2000>>

(***************************************************************************)
(* yolov4/model/yolov4.py: Decode                                          *)
(***************************************************************************)
\* the number of anchors per cell, fixed by Decode.build's target shapes
NumAnchors == 3

\* Decode.build: xy_grid of shape (1, g, g, 3, 2), g = input_shape[1]
XyGrid(g) ==
    LET stacked  == StackLast(Meshgrid(Range(g), Range(g)))
        reshaped == Reshape(stacked, <<1, g, g, 1, 2>>)
    IN  TileAnchorAxis(reshaped, NumAnchors)

\* Decode.build: the two target shapes (the batch axis is kept by Reshape)
Reshape0Target(g, num_classes) == <<1, g, g, NumAnchors, 5 + num_classes>>
Reshape1Target(g, num_classes) == <<1, g * g * NumAnchors, 5 + num_classes>>

\* Decode.__init__: a head with its anchors (3 rows of (w, h)), cell width,
\* class count and xyscale
DecodeHead(anchors, cell_width, num_classes, xyscale) ==
    [anchors |-> anchors, cell_width |-> cell_width,
     num_classes |-> num_classes, xyscale |-> xyscale]

\* Decode.call with training ignored: score and classes always squashed
DecodeCallAlwaysSigmoid(d, x, training) ==
    LET g      == x.shape[2]
        stride == 5 + d.num_classes
        x5     == Reshape(x, Reshape0Target(g, d.num_classes))
        grid   == XyGrid(g)
        out    == [n \in 1..Len(x5.data) |->
                    LET c    == (n - 1) % stride
                        cell == (n - 1) \div stride
                        k    == cell % NumAnchors
                        v    == x5.data[n]
                    IN  IF c < 2
                        THEN ((Sigmoid(v) - 500) * d.xyscale + 500000
                              + grid.data[cell * 2 + c + 1] * 1000000) * d.cell_width
                        ELSE IF c < 4
                        THEN d.anchors[k + 1][c - 1] * Exp(v)
                        ELSE Sigmoid(v)]
    IN  Reshape([shape |-> x5.shape, data |-> out],
                Reshape1Target(g, d.num_classes))

\* Decode.call: split into dxdy, wh, score, classes along the last axis,
\* transform each, concatenate in the same order and flatten the cells
DecodeCall(d, x, training) ==
    LET g      == x.shape[2]
        stride == 5 + d.num_classes
        x5     == Reshape(x, Reshape0Target(g, d.num_classes))
        grid   == XyGrid(g)
        out    == [n \in 1..Len(x5.data) |->
                    LET c    == (n - 1) % stride
                        cell == (n - 1) \div stride
                        k    == cell % NumAnchors
                        v    == x5.data[n]
                    IN  IF c < 2
                        THEN ((Sigmoid(v) - 500) * d.xyscale + 500000
                              + grid.data[cell * 2 + c + 1] * 1000000) * d.cell_width
                        ELSE IF c < 4
                        THEN d.anchors[k + 1][c - 1] * Exp(v)
                        ELSE IF training THEN v ELSE Sigmoid(v)]
    IN  Reshape([shape |-> x5.shape, data |-> out],
                Reshape1Target(g, d.num_classes))

(***************************************************************************)
(* yolov4/model/yolov4.py: YOLOv4                                          *)
(***************************************************************************)
\* YOLOv4.__init__: the three heads, cell widths 8, 16, 32
CellWidths == <<8, 16, 32>>

Heads(anchors, num_classes, xyscales) ==
    [h \in 1..3 |-> DecodeHead(anchors[h], CellWidths[h], num_classes, xyscales[h])]

\* concat_total = Concatenate(axis=1) over [l_bboxes, m_bboxes, s_bboxes]
ConcatTotalReversed(s_bboxes, m_bboxes, l_bboxes) ==
    ConcatAxis1(<<l_bboxes, m_bboxes, s_bboxes>>)

\* concat_total = Concatenate(axis=1) over [s_bboxes, m_bboxes, l_bboxes]
ConcatTotal(s_bboxes, m_bboxes, l_bboxes) ==
    ConcatAxis1(<<s_bboxes, m_bboxes, l_bboxes>>)

\* The convolutional trunk is the framework's: its three head outputs are
\* inputs of the model.  conv93/101/109 have 3 * (num_classes + 5) filters
\* and the strides between the heads halve the grid twice, so for a
\* coarsest grid of u cells the heads see grids 4u, 2u, u.
HeadGrid(h, u) == CASE h = 1 -> 4 * u [] h = 2 -> 2 * u [] h = 3 -> u

RawHead(g, num_classes, a, b) ==
    LET ch == NumAnchors * (num_classes + 5)
    IN  [shape |-> <<1, g, g, ch>>,
         data  |-> [n \in 1..(g * g * ch) |-> Logits[((a * (n - 1) + b) % 5) + 1]]]

AnchorChoices ==
    { << << <<12, 16>>, <<19, 36>>, <<40, 28>> >>,
         << <<36, 75>>, <<76, 55>>, <<72, 146>> >>,
         << <<142, 110>>, <<192, 243>>, <<459, 401>> >> >>,
      << << <<10, 14>>, <<23, 27>>, <<37, 58>> >>,
         << <<81, 82>>, <<135, 169>>, <<344, 319>> >>,
         << <<10, 14>>, <<23, 27>>, <<37, 58>> >> >> }

XyScaleChoices == { <<1200, 1100, 1050>> }

NetInputs ==
    { [num_classes |-> c, training |-> t, unit |-> u, a |-> a, b |-> b,
       anchors |-> an, xyscales |-> xs] :
        c \in 1..MaxClasses, t \in BOOLEAN, u \in 1..MaxGridUnit,
        a \in 1..2, b \in 0..MaxSeed, an \in AnchorChoices, xs \in XyScaleChoices }

\* the head outputs of the trunk for one input of the network
RawHeads(in) ==
    [h \in 1..3 |-> RawHead(HeadGrid(h, in.unit), in.num_classes, in.a, in.b + h)]

NetIdle == [pc |-> "off", in |-> NoValue, raw |-> NoValue,
            s_bboxes |-> NoValue, m_bboxes |-> NoValue, l_bboxes |-> NoValue,
            x |-> NoValue]

\* YOLOv4.call up to conv93: the trunk has run, nothing is decoded yet
NetStart(in) == [NetIdle EXCEPT !.pc = "decode93", !.in = in, !.raw = RawHeads(in)]

\* s_bboxes = self.decode93(s_bboxes, training)
Decode93 ==
    /\ prog = "model"
    /\ net.pc = "decode93"
    /\ net' = [net EXCEPT
                 !.pc = "decode101",
                 !.s_bboxes = DecodeCall(
                     Heads(net.in.anchors, net.in.num_classes, net.in.xyscales)[1],
                     net.raw[1], net.in.training)]
    /\ UNCHANGED <<prog, det, interp, hist, th, nms>>

\* m_bboxes = self.decode101(m_bboxes, training)
Decode101 ==
    /\ prog = "model"
    /\ net.pc = "decode101"
    /\ net' = [net EXCEPT
                 !.pc = "decode109",
                 !.m_bboxes = DecodeCall(
                     Heads(net.in.anchors, net.in.num_classes, net.in.xyscales)[2],
                     net.raw[2], net.in.training)]
    /\ UNCHANGED <<prog, det, interp, hist, th, nms>>

\* l_bboxes = self.decode109(l_bboxes, training)
Decode109 ==
    /\ prog = "model"
    /\ net.pc = "decode109"
    /\ net' = [net EXCEPT
                 !.pc = "concat_total",
                 !.l_bboxes = DecodeCall(
                     Heads(net.in.anchors, net.in.num_classes, net.in.xyscales)[3],
                     net.raw[3], net.in.training)]
    /\ UNCHANGED <<prog, det, interp, hist, th, nms>>

\* x = self.concat_total([s_bboxes, m_bboxes, l_bboxes]); return x
ConcatTotalStep ==
    /\ prog = "model"
    /\ net.pc = "concat_total"
    /\ net' = [net EXCEPT
                 !.pc = "returned",
                 !.x = ConcatTotal(net.s_bboxes, net.m_bboxes, net.l_bboxes)]
    /\ UNCHANGED <<prog, det, interp, hist, th, nms>>

(***************************************************************************)
(* Post-processing inherited from BaseClass (yolo_diou_nms,                *)
(* fit_to_original, resize_image) and the TPU decode _yolo_layer.  Their   *)
(* code is not among the two source files; they are modelled from the      *)
(* specification (sections 4.1, 4.3, 4.4).                                 *)
(*                                                                         *)
(* A candidate row is <<x, y, w, h, objectness, class_0 .. class_{C-1}>>:  *)
(* the box in tenths of the network input, the scores in tenths.  A        *)
(* detection row is <<x, y, w, h, objectness, id0, prob0, id1, prob1>>.    *)
(***************************************************************************)
\* the rows of a tensor of shape (rows, width)
Rows(t) ==
    [r \in 1..t.shape[1] |->
        [c \in 1..t.shape[2] |-> t.data[(r - 1) * t.shape[2] + c]]]

NumClasses(c) == Len(c) - 5
ClassProb(c, id) == c[6 + id]

\* the class with the highest probability, the lowest id on a tie
BestClass(c) ==
    CHOOSE id \in 0..(NumClasses(c) - 1) :
        /\ \A o \in 0..(NumClasses(c) - 1) : ClassProb(c, o) <= ClassProb(c, id)
        /\ \A o \in 0..(id - 1) : ClassProb(c, o) < ClassProb(c, id)

\* the best class among the others (the best class itself when C = 1)
SecondClass(c) ==
    LET b      == BestClass(c)
        others == (0..(NumClasses(c) - 1)) \ {b}
    IN  IF others = {} THEN b
        ELSE CHOOSE id \in others :
                /\ \A o \in others : ClassProb(c, o) <= ClassProb(c, id)
                /\ \A o \in others : o < id => ClassProb(c, o) < ClassProb(c, id)

\* score = objectness * class_prob, in hundredths
Score(c) == c[5] * ClassProb(c, BestClass(c))

\* the acceptance threshold 0.25, in hundredths
ScoreThreshold == 25

Accepted(c) == Score(c) > ScoreThreshold

ToDetection(c) ==
    <<c[1], c[2], c[3], c[4], c[5],
      BestClass(c), ClassProb(c, BestClass(c)),
      SecondClass(c), ClassProb(c, SecondClass(c))>>

\* a detection read back as a candidate row of num_classes classes
ToCandidate(d, num_classes) ==
    <<d[1], d[2], d[3], d[4], d[5]>> \o
    [id0 \in 1..num_classes |->
        IF id0 - 1 = d[6] THEN d[7]
        ELSE IF id0 - 1 = d[8] THEN d[9]
        ELSE 0]

\* box geometry in half units, so that the corners are integers
Left(c)   == 2 * c[1] - c[3]
Right(c)  == 2 * c[1] + c[3]
Top(c)    == 2 * c[2] - c[4]
Bottom(c) == 2 * c[2] + c[4]
Area(c)   == (Right(c) - Left(c)) * (Bottom(c) - Top(c))

Intersection(p, q) ==
    Max(0, Min(Right(p), Right(q)) - Max(Left(p), Left(q)))
    * Max(0, Min(Bottom(p), Bottom(q)) - Max(Top(p), Top(q)))

Union(p, q) == Area(p) + Area(q) - Intersection(p, q)

\* squared distance of the centres
CenterDist2(p, q) ==
    (2 * p[1] - 2 * q[1]) * (2 * p[1] - 2 * q[1])
    + (2 * p[2] - 2 * q[2]) * (2 * p[2] - 2 * q[2])

\* squared diagonal of the smallest enclosing box
EnclosingDiag2(p, q) ==
    LET ew == Max(Right(p), Right(q)) - Min(Left(p), Left(q))
        eh == Max(Bottom(p), Bottom(q)) - Min(Top(p), Top(q))
    IN  ew * ew + eh * eh

\* DIoU = IoU - dist^2 / diag^2 as the fraction <<numerator, denominator>>
DIoU(p, q) ==
    << Intersection(p, q) * EnclosingDiag2(p, q) - CenterDist2(p, q) * Union(p, q),
       Union(p, q) * EnclosingDiag2(p, q) >>

\* the effective threshold, a fraction: beta_nms (in tenths) scaled by the
\* scores, lower the closer the candidate's score is to the kept box's
EffectiveThreshold(kept, c, beta_nms) ==
    << beta_nms * (2 * Score(kept) - Score(c)), 2 * Score(kept) * 10 >>

\* kept suppresses c: DIoU(kept, c) > effective threshold
Suppresses(kept, c, beta_nms) ==
    LET d == DIoU(kept, c)
        e == EffectiveThreshold(kept, c, beta_nms)
    IN  d[1] * e[2] > e[1] * d[2]

\* stable sort by descending score
RECURSIVE InsertByScore(_, _)
InsertByScore(sorted, c) ==
    IF sorted = <<>> THEN <<c>>
    ELSE IF Score(Head(sorted)) >= Score(c)
         THEN <<Head(sorted)>> \o InsertByScore(Tail(sorted), c)
         ELSE <<c>> \o sorted

RECURSIVE SortByScore(_)
SortByScore(cs) ==
    IF cs = <<>> THEN <<>>
    ELSE InsertByScore(SortByScore(SubSeq(cs, 1, Len(cs) - 1)), cs[Len(cs)])

RECURSIVE Filter(_, _, _)
Filter(cs, kept, beta_nms) ==
    IF cs = <<>> THEN <<>>
    ELSE IF Suppresses(kept, Head(cs), beta_nms)
         THEN Filter(Tail(cs), kept, beta_nms)
         ELSE <<Head(cs)>> \o Filter(Tail(cs), kept, beta_nms)

\* a faulty suppression loop: each candidate of the sorted group is
\* compared with its predecessor instead of the kept box
RECURSIVE GreedyAdjacent(_, _)
GreedyAdjacent(sorted, beta_nms) ==
    IF Len(sorted) <= 1 THEN sorted
    ELSE <<Head(sorted)>> \o
         (IF Suppresses(sorted[1], sorted[2], beta_nms)
          THEN Tail(GreedyAdjacent(Tail(sorted), beta_nms))
          ELSE GreedyAdjacent(Tail(sorted), beta_nms))

\* pick the best remaining candidate, keep it, drop what it suppresses
RECURSIVE Greedy(_, _)
Greedy(sorted, beta_nms) ==
    IF sorted = <<>> THEN <<>>
    ELSE <<Head(sorted)>> \o
         Greedy(Filter(Tail(sorted), Head(sorted), beta_nms), beta_nms)

RECURSIVE Select(_, _)
Select(cs, id) ==
    IF cs = <<>> THEN <<>>
    ELSE IF Accepted(Head(cs)) /\ BestClass(Head(cs)) = id
         THEN <<Head(cs)>> \o Select(Tail(cs), id)
         ELSE Select(Tail(cs), id)

\* a faulty grouping: the class is ignored, all accepted candidates form
\* the group of class 0
ClassGroupAnyClass(cs, id) ==
    IF id = 0 THEN Select(cs, 0) \o Flatten([o \in 1..(NumClasses(cs[1]) - 1) |-> Select(cs, o)])
    ELSE <<>>

\* the accepted candidates whose predicted class is id, in input order
ClassGroup(cs, id) == Select(cs, id)

\* the faulty suppression loop applied to a group
KeptOfGroupAdjacent(group, beta_nms) == GreedyAdjacent(SortByScore(group), beta_nms)

\* the kept candidates of one class group, by descending score
KeptOfGroup(group, beta_nms) == Greedy(SortByScore(group), beta_nms)

\* the kept candidates, class groups in class-id order
RECURSIVE KeptFrom(_, _, _, _)
KeptFrom(cs, beta_nms, id, num_classes) ==
    IF id >= num_classes THEN <<>>
    ELSE KeptOfGroup(ClassGroup(cs, id), beta_nms)
         \o KeptFrom(cs, beta_nms, id + 1, num_classes)

Kept(cs, beta_nms) ==
    IF cs = <<>> THEN <<>> ELSE KeptFrom(cs, beta_nms, 0, NumClasses(cs[1]))

\* yolo_diou_nms(candidates, beta_nms)
YoloDiouNms(cs, beta_nms) ==
    LET kept == Kept(cs, beta_nms) IN [i \in 1..Len(kept) |-> ToDetection(kept[i])]

\* fit_to_original(pred_bboxes, height, width): the boxes, in tenths of the
\* letterboxed network input of shape input_shape = (in_h, in_w, channels),
\* become pixels of the original height x width frame (origin top left)
FitRow(d, height, width, input_shape) ==
    LET in_h == input_shape[1]
        in_w == input_shape[2]
    IN  IF in_w * height <= in_h * width
        THEN \* the frame fills the input's width; bars above and below
             [d EXCEPT ![1] = (d[1] * width) \div 10,
                       ![2] = (height * in_w * 5 + (d[2] - 5) * in_h * width)
                              \div (10 * in_w),
                       ![3] = (d[3] * width) \div 10,
                       ![4] = (d[4] * in_h * width) \div (10 * in_w)]
        ELSE \* the frame fills the input's height; bars left and right
             [d EXCEPT ![1] = (width * in_h * 5 + (d[1] - 5) * in_w * height)
                              \div (10 * in_h),
                       ![2] = (d[2] * height) \div 10,
                       ![3] = (d[3] * in_w * height) \div (10 * in_h),
                       ![4] = (d[4] * height) \div 10]

FitToOriginal(pred_bboxes, height, width, input_shape) ==
    [i \in 1..Len(pred_bboxes) |-> FitRow(pred_bboxes[i], height, width, input_shape)]

\* resize_image(frame): the frame letterboxed to the configured input
\* shape; px stands for the picture's content
ResizeImage(frame, input_shape) == [shape |-> input_shape, px |-> frame.px]

\* an anchor divided by the network width or height, kept as the exact
\* fraction <<numerator, denominator>>
Frac(n, d) == <<n, d>>

\* _yolo_layer(x, logistic(x), anchors, scale_x_y): the decode of section
\* 4.1 on one TPU head of shape (1, gh, gw, na * (5 + C)); x holds whole
\* logits, lx their sigmoids in tenths, scale_x_y is in tenths and the
\* result is in tenths of the network input
YoloLayer(x, lx, anchors, scale_x_y) ==
    LET gw  == x.shape[3]
        gh  == x.shape[2]
        ch  == x.shape[4]
        na  == Len(anchors)
        box == Max(1, ch \div Max(1, na))
    IN  [shape |-> x.shape,
         data  |-> [n \in 1..Len(x.data) |->
                      LET c   == ((n - 1) % ch) % box
                          k   == Min(Max(1, na), (((n - 1) % ch) \div box) + 1)
                          col == ((n - 1) \div ch) % gw
                          row == ((n - 1) \div (ch * gw)) % gh
                      IN  IF c = 0
                          THEN ((lx.data[n] - 5) * scale_x_y + 50 + 100 * col)
                               \div (10 * gw)
                          ELSE IF c = 1
                          THEN ((lx.data[n] - 5) * scale_x_y + 50 + 100 * row)
                               \div (10 * gh)
                          ELSE IF c < 4
                          THEN (anchors[k][c - 1][1] * Exp(1000 * x.data[n]))
                               \div (anchors[k][c - 1][2] * 100)
                          ELSE lx.data[n]]]

(***************************************************************************)
(* yolov4/tflite/__init__.py: the detector's inputs                        *)
(***************************************************************************)
\* a [yolo] / [yolo_tpu] metalayer of the configuration; mask holds 0-based
\* indices into anchors; beta_nms and scale_x_y are in tenths
MetaYolo(beta_nms, mask, scale_x_y) ==
    [beta_nms |-> beta_nms, mask |-> mask, scale_x_y |-> scale_x_y,
     anchors |-> << <<1, 1>>, <<2, 1>>, <<4, 2>> >>, classes |-> 2]

\* self.config: net.input_shape = (height, width, channels)
Config(heads, tpu) ==
    [net |-> [input_shape |-> <<2, 4, 3>>, width |-> 4, height |-> 2],
     layer_count |-> [yolo     |-> IF tpu THEN 0 ELSE Len(heads),
                      yolo_tpu |-> IF tpu THEN Len(heads) ELSE 0],
     yolo     |-> IF tpu THEN <<>> ELSE heads,
     yolo_tpu |-> IF tpu THEN heads ELSE <<>>]

TwoHeads == << MetaYolo(6, <<1, 2>>, 12), MetaYolo(5, <<0>>, 11) >>
OneHead  == << MetaYolo(6, <<2, 0>>, 12) >>

Configs == { Config(TwoHeads, FALSE), Config(TwoHeads, TRUE), Config(OneHead, FALSE) }

\* config.find_metalayer(layer_type, i), i counted from 0
FindMetalayer(config, layer_type, i) ==
    IF layer_type = "yolo_tpu" THEN config.yolo_tpu[i + 1] ELSE config.yolo[i + 1]

\* a compiled model file: its input tensor and its output tensors
TfliteModel(id, input_shape, float, out_shapes, tpu) ==
    [id |-> id, input_shape |-> input_shape, float |-> float,
     out_shapes |-> out_shapes, tpu |-> tpu]

Models ==
    { \* the two heads the two-head configuration declares
      TfliteModel(1, <<1, 2, 4, 3>>, TRUE, << <<1, 1, 2, 14>>, <<1, 1, 1, 7>> >>, FALSE),
      \* another input size
      TfliteModel(2, <<1, 4, 4, 3>>, TRUE, << <<1, 1, 2, 14>>, <<1, 1, 1, 7>> >>, FALSE),
      \* three anchors instead of two on the first head
      TfliteModel(3, <<1, 2, 4, 3>>, FALSE, << <<1, 1, 2, 21>>, <<1, 1, 1, 7>> >>, FALSE),
      \* three classes instead of two
      TfliteModel(4, <<1, 2, 4, 3>>, TRUE, << <<1, 1, 2, 16>>, <<1, 1, 1, 8>> >>, FALSE),
      \* the quantized TPU model: each head as x and logistic(x)
      TfliteModel(5, <<1, 2, 4, 3>>, FALSE,
                  << <<1, 1, 2, 14>>, <<1, 1, 2, 14>>, <<1, 1, 1, 7>>, <<1, 1, 1, 7>> >>,
                  TRUE),
      \* the single head the one-head configuration declares
      TfliteModel(6, <<1, 2, 4, 3>>, TRUE, << <<1, 2, 2, 14>> >>, FALSE) }

\* camera frames: shape (height, width, channels) and content
Frames ==
    { [shape |-> <<40, 80, 3>>, px |-> 1],
      [shape |-> <<60, 60, 3>>, px |-> 2] }

\* what the pictures show, as the candidate rows a well-trained network
\* answers with
Scene(px) ==
    CASE px = 1 -> << <<5, 5, 4, 4, 9, 9, 1>>, <<5, 5, 4, 4, 8, 1, 9>>,
                      <<5, 5, 4, 4, 7, 8, 2>>, <<1, 1, 2, 2, 6, 7, 3>>,
                      <<8, 8, 2, 2, 2, 5, 5>> >>
      [] px = 2 -> << <<3, 3, 2, 2, 8, 2, 8>>, <<3, 3, 2, 2, 8, 2, 8>>,
                      <<4, 3, 2, 2, 9, 1, 9>>, <<7, 7, 4, 4, 5, 6, 4>>,
                      <<7, 7, 4, 4, 5, 4, 6>> >>

RECURSIVE SizeBefore(_, _)
SizeBefore(shapes, i) ==
    IF i <= 1 THEN 0 ELSE Prod(shapes[i - 1]) + SizeBefore(shapes, i - 1)

\* The network itself is the interpreter's.  Its answer to an input is an
\* input of the model: for the float and uint8 models the scene's rows laid
\* out over the output tensors in order (repeating when the model has more
\* room), for the TPU model whole logits in -2..0 and their sigmoids in
\* tenths.
NetOutput(model, x) ==
    LET flat == Flatten(Scene(x.px))
    IN  [i \in 1..Len(model.out_shapes) |->
            [shape |-> model.out_shapes[i],
             data  |-> [n \in 1..Prod(model.out_shapes[i]) |->
                          IF model.tpu
                          THEN LET v == ((x.px * n + ((i + 1) \div 2) + n \div 3) % 3) - 2
                               IN  IF i % 2 = 1 THEN v ELSE Sigmoid(1000 * v) \div 100
                          ELSE flat[((SizeBefore(model.out_shapes, i) + n - 1)
                                     % Len(flat)) + 1]]]]

(***************************************************************************)
(* yolov4/tflite/__init__.py: load_tflite                                  *)
(***************************************************************************)
\* a detector as BaseClass constructs it: a configuration and none of the
\* attributes load_tflite sets (loaded: the attributes assigned after the
\* input check exist)
NewDetector(config) ==
    [config |-> config, loaded |-> FALSE, tpu |-> NoValue, input_details |-> NoValue,
     input_float |-> NoValue, output_details |-> NoValue, anchors |-> NoValue,
     scale_x_y |-> NoValue, beta_nms |-> NoValue]

\* tflite.Interpreter(model_path=...) and allocate_tensors(): a fresh
\* interpreter; gen numbers the load_tflite call that made it, input_from
\* and output_from record whose input its tensors currently stem from
NewInterpreter(model, gen) ==
    [model |-> model, gen |-> gen, input |-> NoValue, output |-> NoValue,
     input_from |-> 0, output_from |-> 0]

\* get_input_details()[0]
InputDetails(model) ==
    [index |-> 0, shape |-> model.input_shape,
     dtype |-> IF model.float THEN "float32" ELSE "uint8"]

\* get_output_details()
OutputDetails(model) ==
    [i \in 1..Len(model.out_shapes) |-> [index |-> i, shape |-> model.out_shapes[i]]]

\* the check of lines 64-68
InputShapeMismatch(config, input_details) ==
    \/ input_details.shape[2] # config.net.input_shape[1]
    \/ input_details.shape[3] # config.net.input_shape[2]
    \/ input_details.shape[4] # config.net.input_shape[3]

LayerType(tpu) == IF tpu THEN "yolo_tpu" ELSE "yolo"

LayerCount(config, layer_type) ==
    IF layer_type = "yolo_tpu" THEN config.layer_count.yolo_tpu
    ELSE config.layer_count.yolo

\* the rows of head i (from 0): anchors[n] / (net.width, net.height) for n in mask
HeadAnchors(config, layer_type, i) ==
    LET metayolo == FindMetalayer(config, layer_type, i)
    IN  [j \in 1..Len(metayolo.mask) |->
            << Frac(metayolo.anchors[metayolo.mask[j] + 1][1], config.net.width),
               Frac(metayolo.anchors[metayolo.mask[j] + 1][2], config.net.height) >>]

\* a faulty loop that keeps the beta_nms of the first head
RECURSIVE LoopBetaNmsFirst(_, _, _, _)
LoopBetaNmsFirst(config, layer_type, i, beta_nms) ==
    IF i >= LayerCount(config, layer_type) THEN beta_nms
    ELSE LoopBetaNmsFirst(config, layer_type, i + 1,
                          IF i = 0 THEN FindMetalayer(config, layer_type, i).beta_nms
                          ELSE beta_nms)

\* self._beta_nms over the loop of lines 88-90, from iteration i on: every
\* iteration overwrites it
RECURSIVE LoopBetaNms(_, _, _, _)
LoopBetaNms(config, layer_type, i, beta_nms) ==
    IF i >= LayerCount(config, layer_type) THEN beta_nms
    ELSE LoopBetaNms(config, layer_type, i + 1,
                     FindMetalayer(config, layer_type, i).beta_nms)

\* the caller's threads; a predict call is in progress between its first
\* and its last step
Threads == {1, 2}

InProgress(t) == th[t].pc \notin {"idle", "done", "raised"}

\* load_tflite, run by the caller while no predict is in progress
LoadTflite(model) ==
    /\ prog = "tflite"
    /\ hist.loads < MaxLoads
    /\ \A t \in Threads : ~InProgress(t)
    /\ LET tpu           == det.config.layer_count.yolo_tpu > 0
           gen           == hist.loads + 1
           input_details == InputDetails(model)
           layer_type    == LayerType(tpu)
           count         == LayerCount(det.config, layer_type)
       IN  /\ interp' = NewInterpreter(model, gen)
           /\ IF InputShapeMismatch(det.config, input_details)
              THEN \* RuntimeError: _tpu and _interpreter are already assigned
                   /\ det' = [det EXCEPT !.tpu = tpu]
                   /\ hist' = [hist EXCEPT !.loads = gen,
                                           !.last = [model |-> model, raised |-> TRUE]]
              ELSE /\ det' = [det EXCEPT
                                !.loaded = TRUE,
                                !.tpu = tpu,
                                !.input_details = input_details,
                                !.input_float = (input_details.dtype = "float32"),
                                !.output_details = OutputDetails(model),
                                !.anchors = [i \in 1..count |->
                                               HeadAnchors(det.config, layer_type, i - 1)],
                                !.scale_x_y = [i \in 1..count |->
                                    FindMetalayer(det.config, layer_type, i - 1).scale_x_y],
                                !.beta_nms = LoopBetaNms(det.config, layer_type, 0,
                                                         det.beta_nms)]
                   /\ hist' = [hist EXCEPT !.loads = gen, !.gen_ok = gen,
                                           !.last = [model |-> model, raised |-> FALSE]]
    /\ UNCHANGED <<prog, net, th, nms>>

(***************************************************************************)
(* yolov4/tflite/__init__.py: predict and _predict, one step per stage     *)
(***************************************************************************)
\* the locals of a predict call; log lists the stages run so far; igen and
\* dgen record the load_tflite calls the interpreter and the input details
\* in use came from, from records whose input the tensors read stem from,
\* overlapped whether another call was in progress during this one
ThreadIdle ==
    [pc |-> "idle", frame |-> NoValue, height |-> 0, width |-> 0,
     image_data |-> NoValue, x |-> NoValue, yolos |-> <<>>,
     candidates |-> NoValue, beta_nms |-> NoValue, pred_bboxes |-> NoValue,
     result |-> NoValue, log |-> <<>>, igen |-> 0, dgen |-> 0, from |-> <<>>,
     overlapped |-> FALSE]

Raise(t, stage) ==
    [th EXCEPT ![t].pc = "raised", ![t].log = th[t].log \o <<stage>>]

\* height, width, _ = frame.shape
PredictBegin(t, frame) ==
    /\ prog = "tflite"
    /\ ~InProgress(t)
    /\ th' = [o \in Threads |->
                IF o = t
                THEN [ThreadIdle EXCEPT
                        !.pc = "resize_image", !.frame = frame,
                        !.height = frame.shape[1], !.width = frame.shape[2],
                        !.log = <<"shape">>,
                        !.overlapped = \E q \in Threads \ {t} : InProgress(q)]
                ELSE IF InProgress(o) THEN [th[o] EXCEPT !.overlapped = TRUE]
                ELSE th[o]]
    /\ UNCHANGED <<prog, net, det, interp, hist, nms>>

\* image_data = self.resize_image(frame)
ResizeStep(t) ==
    /\ prog = "tflite"
    /\ th[t].pc = "resize_image"
    /\ th' = [th EXCEPT
                ![t].pc = "set_tensor",
                ![t].image_data = ResizeImage(th[t].frame, det.config.net.input_shape),
                ![t].log = th[t].log \o <<"resize_image">>]
    /\ UNCHANGED <<prog, net, det, interp, hist, nms>>

\* image_data[np.newaxis, ...] as float32 / 255, or as it is
NetworkInput(image_data, input_float) ==
    [shape |-> <<1>> \o image_data.shape, px |-> image_data.px, float |-> input_float]

\* _predict whose set_tensor writes only an input tensor that was never
\* written: a later call leaves the tensor of the earlier call in place
SetTensorStale(t) ==
    /\ prog = "tflite"
    /\ th[t].pc = "set_tensor"
    /\ IF ~det.loaded
       THEN /\ th' = Raise(t, "set_tensor")
            /\ UNCHANGED interp
       ELSE LET x == NetworkInput(th[t].image_data, det.input_float)
            IN  IF x.shape # interp.model.input_shape
                THEN /\ th' = [Raise(t, "set_tensor") EXCEPT
                                 ![t].x = x,
                                 ![t].igen = interp.gen, ![t].dgen = hist.gen_ok]
                     /\ UNCHANGED interp
                ELSE /\ th' = [th EXCEPT
                                 ![t].pc = "invoke", ![t].x = x,
                                 ![t].igen = interp.gen, ![t].dgen = hist.gen_ok,
                                 ![t].log = th[t].log \o <<"set_tensor">>]
                     /\ interp' = IF interp.input = NoValue
                                  THEN [interp EXCEPT !.input = x, !.input_from = t]
                                  ELSE interp
    /\ UNCHANGED <<prog, net, det, hist, nms>>

\* the read of self._input_float (AttributeError before the first
\* successful load), the conversion of the image and
\* self._interpreter.set_tensor(self._input_details["index"], x), which the
\* interpreter refuses when x has not the shape of its input tensor
SetTensor(t) ==
    /\ prog = "tflite"
    /\ th[t].pc = "set_tensor"
    /\ IF ~det.loaded
       THEN /\ th' = Raise(t, "set_tensor")
            /\ UNCHANGED interp
       ELSE LET x == NetworkInput(th[t].image_data, det.input_float)
            IN  IF x.shape # interp.model.input_shape
                THEN /\ th' = [Raise(t, "set_tensor") EXCEPT
                                 ![t].x = x,
                                 ![t].igen = interp.gen, ![t].dgen = hist.gen_ok]
                     /\ UNCHANGED interp
                ELSE /\ th' = [th EXCEPT
                                 ![t].pc = "invoke", ![t].x = x,
                                 ![t].igen = interp.gen, ![t].dgen = hist.gen_ok,
                                 ![t].log = th[t].log \o <<"set_tensor">>]
                     /\ interp' = [interp EXCEPT !.input = x, !.input_from = t]
    /\ UNCHANGED <<prog, net, det, hist, nms>>

\* self._interpreter.invoke()
Invoke(t) ==
    /\ prog = "tflite"
    /\ th[t].pc = "invoke"
    /\ interp' = [interp EXCEPT !.output = NetOutput(interp.model, interp.input),
                                !.output_from = interp.input_from]
    /\ th' = [th EXCEPT ![t].pc = "get_tensor",
                        ![t].log = th[t].log \o <<"invoke">>]
    /\ UNCHANGED <<prog, net, det, hist, nms>>

\* yolos = [get_tensor(output_detail["index"]) for output_detail in ...]:
\* one get_tensor call per step, in the order of self._output_details; other
\* calls of predict can run between two of them.  from lists, per tensor
\* read, the call whose input it was computed from
GetTensor(t) ==
    /\ prog = "tflite"
    /\ th[t].pc = "get_tensor"
    /\ LET i == Len(th[t].yolos) + 1
           last == i >= Len(det.output_details)
       IN  th' = [th EXCEPT
                    ![t].pc = IF last THEN "concatenate" ELSE "get_tensor",
                    ![t].yolos = IF i <= Len(det.output_details)
                                 THEN Append(th[t].yolos,
                                             interp.output[det.output_details[i].index])
                                 ELSE th[t].yolos,
                    ![t].from = IF i <= Len(det.output_details)
                                THEN Append(th[t].from, interp.output_from)
                                ELSE th[t].from,
                    ![t].log = IF last THEN th[t].log \o <<"get_tensor">>
                               ELSE th[t].log]
    /\ UNCHANGED <<prog, net, det, interp, hist, nms>>

\* lines 122-143: the tensors _predict reshapes, and the row width
Stride(d) ==
    IF d.tpu THEN 5 + d.config.yolo_tpu[1].classes ELSE 5 + d.config.yolo[1].classes

ToReshape(d, yolos) ==
    IF d.tpu
    THEN [i \in 1..(Len(yolos) \div 2) |->
            YoloLayer(yolos[2 * i - 1], yolos[2 * i], d.anchors[i], d.scale_x_y[i])]
    ELSE yolos

\* np.concatenate(candidates, axis=1) of the heads reshaped to (1, -1, stride)
Candidates(d, yolos) ==
    LET _yolos == ToReshape(d, yolos)
    IN  ConcatAxis1([i \in 1..Len(_yolos) |-> ReshapeRows(_yolos[i], Stride(d))])

\* an index past the anchors, x and logistic(x) of different shapes, a head
\* no multiple of stride long, or nothing to concatenate
ConcatenateRaises(d, yolos) ==
    IF d.tpu
    THEN \/ Len(yolos) \div 2 > Len(d.anchors)
         \/ Len(yolos) \div 2 = 0
         \/ \E i \in 1..(Len(yolos) \div 2) :
                \/ yolos[2 * i - 1].shape # yolos[2 * i].shape
                \/ ~CanReshapeRows(yolos[2 * i - 1], Stride(d))
    ELSE \/ Len(yolos) = 0
         \/ \E i \in 1..Len(yolos) : ~CanReshapeRows(yolos[i], Stride(d))

\* the rest of _predict, and the [0] that drops the batch axis
ConcatenateStep(t) ==
    /\ prog = "tflite"
    /\ th[t].pc = "concatenate"
    /\ IF ConcatenateRaises(det, th[t].yolos)
       THEN th' = Raise(t, "concatenate")
       ELSE LET c == Candidates(det, th[t].yolos)
            IN  th' = [th EXCEPT
                         ![t].pc = "yolo_diou_nms",
                         ![t].candidates = Reshape(c, <<c.shape[2], c.shape[3]>>),
                         ![t].log = th[t].log \o <<"concatenate">>]
    /\ UNCHANGED <<prog, net, det, interp, hist, nms>>

\* pred_bboxes = self.yolo_diou_nms(candidates, self._beta_nms)
NmsStep(t) ==
    /\ prog = "tflite"
    /\ th[t].pc = "yolo_diou_nms"
    /\ th' = [th EXCEPT
                ![t].pc = "fit_to_original",
                ![t].beta_nms = det.beta_nms,
                ![t].pred_bboxes = YoloDiouNms(Rows(th[t].candidates), det.beta_nms),
                ![t].log = th[t].log \o <<"yolo_diou_nms">>]
    /\ UNCHANGED <<prog, net, det, interp, hist, nms>>

\* fit_to_original given the resized image's height and width
FitStepResized(t) ==
    /\ prog = "tflite"
    /\ th[t].pc = "fit_to_original"
    /\ th' = [th EXCEPT
                ![t].pc = "return",
                ![t].pred_bboxes = FitToOriginal(th[t].pred_bboxes,
                                                 th[t].image_data.shape[1],
                                                 th[t].image_data.shape[2],
                                                 det.config.net.input_shape),
                ![t].log = th[t].log \o <<"fit_to_original">>]
    /\ UNCHANGED <<prog, net, det, interp, hist, nms>>

\* self.fit_to_original(pred_bboxes, height, width), in place
FitStep(t) ==
    /\ prog = "tflite"
    /\ th[t].pc = "fit_to_original"
    /\ th' = [th EXCEPT
                ![t].pc = "return",
                ![t].pred_bboxes = FitToOriginal(th[t].pred_bboxes,
                                                 th[t].height, th[t].width,
                                                 det.config.net.input_shape),
                ![t].log = th[t].log \o <<"fit_to_original">>]
    /\ UNCHANGED <<prog, net, det, interp, hist, nms>>

\* return pred_bboxes
ReturnStep(t) ==
    /\ prog = "tflite"
    /\ th[t].pc = "return"
    /\ th' = [th EXCEPT ![t].pc = "done", ![t].result = th[t].pred_bboxes,
                        ![t].log = th[t].log \o <<"return">>]
    /\ UNCHANGED <<prog, net, det, interp, hist, nms>>

(***************************************************************************)
(* yolo_diou_nms on its own: applied to a candidate list, then to its own  *)
(* output read back as candidates.                                         *)
(***************************************************************************)
\* candidate lists hold at most MaxCands rows
MaxCands == 3

NmsPool ==
    { <<5, 5, 4, 4, 9, 9, 1>>, <<4, 5, 4, 4, 8, 9, 1>>, <<6, 5, 4, 4, 7, 8, 2>>,
      <<5, 5, 4, 4, 9, 1, 9>>, <<1, 1, 2, 2, 6, 7, 3>>, <<8, 8, 2, 2, 2, 5, 5>>,
      <<5, 5, 4, 4, 6, 5, 5>> }

NmsInputs ==
    { [cands |-> cs, beta_nms |-> b] :
        cs \in UNION { [1..k -> NmsPool] : k \in 0..MaxCands }, b \in {5, 6} }

NmsIdle == [pc |-> "off", cands |-> <<>>, beta_nms |-> 0, kept |-> <<>>,
            out |-> <<>>, again |-> <<>>]

NmsStart(in) == [NmsIdle EXCEPT !.pc = "start", !.cands = in.cands,
                                !.beta_nms = in.beta_nms]

NmsRun ==
    /\ prog = "nms"
    /\ nms.pc = "start"
    /\ nms' = [nms EXCEPT !.pc = "once",
                          !.kept = Kept(nms.cands, nms.beta_nms),
                          !.out = YoloDiouNms(nms.cands, nms.beta_nms)]
    /\ UNCHANGED <<prog, net, det, interp, hist, th>>

NmsRerun ==
    /\ prog = "nms"
    /\ nms.pc = "once"
    /\ nms' = [nms EXCEPT
                 !.pc = "twice",
                 !.again = YoloDiouNms(
                     [i \in 1..Len(nms.out) |->
                         ToCandidate(nms.out[i], NumClasses(nms.cands[1]))],
                     nms.beta_nms)]
    /\ UNCHANGED <<prog, net, det, interp, hist, th>>

(***************************************************************************)
(* The specification.                                                      *)
(***************************************************************************)
HistStart == [loads |-> 0, gen_ok |-> 0, last |-> NoValue]

Init ==
    /\ prog \in {"model", "tflite", "nms"}
    /\ IF prog = "model" THEN net \in { NetStart(in) : in \in NetInputs }
       ELSE net = NetIdle
    /\ IF prog = "tflite" THEN det \in { NewDetector(c) : c \in Configs }
       ELSE det = NoValue
    /\ interp = NoValue
    /\ hist = HistStart
    /\ th = [t \in Threads |-> ThreadIdle]
    /\ IF prog = "nms" THEN nms \in { NmsStart(in) : in \in NmsInputs }
       ELSE nms = NmsIdle

Next ==
    \/ Decode93
    \/ Decode101
    \/ Decode109
    \/ ConcatTotalStep
    \/ \E model \in Models : LoadTflite(model)
    \/ \E t \in Threads : \E frame \in Frames : PredictBegin(t, frame)
    \/ \E t \in Threads : ResizeStep(t)
    \/ \E t \in Threads : SetTensor(t)
    \/ \E t \in Threads : Invoke(t)
    \/ \E t \in Threads : GetTensor(t)
    \/ \E t \in Threads : ConcatenateStep(t)
    \/ \E t \in Threads : NmsStep(t)
    \/ \E t \in Threads : FitStep(t)
    \/ \E t \in Threads : ReturnStep(t)
    \/ NmsRun
    \/ NmsRerun

Spec == Init /\ [][Next]_vars

(***************************************************************************)
(* Properties of the Keras network (yolov4/model/yolov4.py).               *)
(***************************************************************************)
\* the decoded heads present in the current state, with their head number
Decoded ==
    (IF net.pc \in {"decode101", "decode109", "concat_total", "returned"}
     THEN { [h |-> 1, out |-> net.s_bboxes] } ELSE {})
    \cup (IF net.pc \in {"decode109", "concat_total", "returned"}
          THEN { [h |-> 2, out |-> net.m_bboxes] } ELSE {})
    \cup (IF net.pc \in {"concat_total", "returned"}
          THEN { [h |-> 3, out |-> net.l_bboxes] } ELSE {})

GridOf(h) == HeadGrid(h, net.in.unit)
WidthOf == 5 + net.in.num_classes

\* the raw value of column c (from 0) of anchor k of cell (row i, column j)
RawAt(h, i, j, k, c) ==
    net.raw[h].data[((i * GridOf(h) + j) * NumAnchors + k) * WidthOf + c + 1]

\* the decoded value of column c of the candidate row of (i, j, k)
OutAt(d, i, j, k, c) ==
    d.out.data[((i * GridOf(d.h) + j) * NumAnchors + k) * WidthOf + c + 1]

Cells(h) == (0..(GridOf(h) - 1)) \X (0..(GridOf(h) - 1)) \X (0..(NumAnchors - 1))

\* ((sigmoid(v) - 0.5) * xyscale + 0.5 + offset) * cell_width, in millionths
CenterOf(v, offset, h) ==
    ((Sigmoid(v) - 500) * net.in.xyscales[h] + 500000 + offset * 1000000)
    * CellWidths[h]

\* C3: every Decode head emits exactly g * g * 3 candidate rows of width
\* 5 + C; the concatenation of the network, and that of _predict, holds
\* exactly the heads' rows, in head order, none dropped or duplicated
C3_CandidateCounts ==
    /\ prog = "model" =>
          /\ \A d \in Decoded :
                /\ d.out.shape = <<1, GridOf(d.h) * GridOf(d.h) * NumAnchors, WidthOf>>
                /\ Len(d.out.data) = GridOf(d.h) * GridOf(d.h) * NumAnchors * WidthOf
          /\ net.pc = "returned" =>
                /\ net.x.shape =
                      <<1,
                        (GridOf(1) * GridOf(1) + GridOf(2) * GridOf(2)
                         + GridOf(3) * GridOf(3)) * NumAnchors,
                        WidthOf>>
                /\ net.x.data = net.s_bboxes.data \o net.m_bboxes.data
                                                  \o net.l_bboxes.data
    /\ prog = "tflite" =>
          \A t \in Threads :
             th[t].pc \in {"yolo_diou_nms", "fit_to_original", "return", "done"} =>
                LET heads == ToReshape(det, th[t].yolos)
                IN  /\ th[t].candidates.shape[2] = Stride(det)
                    /\ th[t].candidates.shape[1] =
                          SumRows([i \in 1..Len(heads) |->
                             [shape |-> <<1,
                                          heads[i].shape[2] * heads[i].shape[3]
                                          * (heads[i].shape[4] \div Stride(det))>>]])
                    /\ th[t].candidates.data =
                          Flatten([i \in 1..Len(heads) |-> heads[i].data])

\* the network has returned the concatenation of three heads of different
\* sizes; a detector has concatenated two heads
C3_Witness ==
    \/ /\ prog = "model"
       /\ net.pc = "returned"
       /\ net.x.shape[2] = 21 * GridOf(3) * GridOf(3) * NumAnchors
    \/ /\ prog = "tflite"
       /\ \E t \in Threads :
             /\ th[t].pc = "done"
             /\ Len(th[t].yolos) = 2
             /\ th[t].candidates.shape[1] = 5

\* C4: the grid offset added to x is the column index j and the one added
\* to y is the row index i, the same for all anchors of a cell
C4_GridOffsets ==
    prog = "model" =>
       \A d \in Decoded : \A cell \in Cells(d.h) :
          LET i == cell[1]
              j == cell[2]
              k == cell[3]
          IN  /\ OutAt(d, i, j, k, 0) = CenterOf(RawAt(d.h, i, j, k, 0), j, d.h)
              /\ OutAt(d, i, j, k, 1) = CenterOf(RawAt(d.h, i, j, k, 1), i, d.h)

\* a head is decoded whose cell in row 0, column 1 has x in the second
\* column of cells and y in the first row
C4_Witness ==
    /\ prog = "model"
    /\ \E d \in Decoded :
          /\ GridOf(d.h) >= 2
          /\ OutAt(d, 0, 1, 0, 0) >= 1000000 * CellWidths[d.h]
          /\ OutAt(d, 0, 1, 0, 1) < 1000000 * CellWidths[d.h]

\* C5: objectness and class logits are squashed by the sigmoid exactly when
\* training is False and passed through when it is True; x, y, w, h are the
\* same transform in both modes; all three heads get the call's flag
C5_TrainingFlag ==
    prog = "model" =>
       \A d \in Decoded : \A cell \in Cells(d.h) :
          LET i == cell[1]
              j == cell[2]
              k == cell[3]
              anchor == net.in.anchors[d.h][k + 1]
          IN  /\ OutAt(d, i, j, k, 0) = CenterOf(RawAt(d.h, i, j, k, 0), j, d.h)
              /\ OutAt(d, i, j, k, 1) = CenterOf(RawAt(d.h, i, j, k, 1), i, d.h)
              /\ OutAt(d, i, j, k, 2) = anchor[1] * Exp(RawAt(d.h, i, j, k, 2))
              /\ OutAt(d, i, j, k, 3) = anchor[2] * Exp(RawAt(d.h, i, j, k, 3))
              /\ \A c \in 4..(WidthOf - 1) :
                    OutAt(d, i, j, k, c) =
                       IF net.in.training THEN RawAt(d.h, i, j, k, c)
                       ELSE Sigmoid(RawAt(d.h, i, j, k, c))

\* a training call has returned with a negative objectness left as it was
C5_Witness ==
    /\ prog = "model"
    /\ net.pc = "returned"
    /\ net.in.training
    /\ \E d \in Decoded : \E cell \in Cells(d.h) :
          /\ RawAt(d.h, cell[1], cell[2], cell[3], 4) < 0
          /\ OutAt(d, cell[1], cell[2], cell[3], 4) < 0

(***************************************************************************)
(* Properties of the detector (yolov4/tflite/__init__.py).                 *)
(***************************************************************************)
Stages == <<"shape", "resize_image", "set_tensor", "invoke", "get_tensor",
            "concatenate", "yolo_diou_nms", "fit_to_original", "return">>

IsPrefix(p, q) == Len(p) <= Len(q) /\ p = SubSeq(q, 1, Len(p))

\* the stage a call is at is the one after the stages it has run
NextStage(t) ==
    IF Len(th[t].log) < Len(Stages) THEN Stages[Len(th[t].log) + 1] ELSE "done"

\* the detections predict returns for the head tensors yolos and a frame
ResultOf(yolos, frame) ==
    LET c == Candidates(det, yolos)
    IN  FitToOriginal(
            YoloDiouNms(Rows(Reshape(c, <<c.shape[2], c.shape[3]>>)), det.beta_nms),
            frame.shape[1], frame.shape[2], det.config.net.input_shape)

\* C1: a predict call runs its stages once each in the order shape,
\* resize_image, set_tensor, invoke, get_tensor, concatenate, yolo_diou_nms,
\* fit_to_original, return; what it returns is the NMS of the concatenated
\* tensors it read, remapped with the height and width of the frame it was
\* given, and the tensor it set is the resized frame (stated while the
\* attributes of the load the call ran under are still the detector's)
C1_StageOrder ==
    prog = "tflite" =>
       \A t \in Threads :
          /\ IsPrefix(th[t].log, Stages)
          /\ InProgress(t) => th[t].pc = NextStage(t)
          /\ th[t].pc = "done" => th[t].log = Stages
          /\ (th[t].pc = "done" /\ th[t].dgen = hist.gen_ok) =>
                /\ th[t].x = NetworkInput(
                                ResizeImage(th[t].frame, det.config.net.input_shape),
                                det.input_float)
                /\ th[t].result = ResultOf(th[t].yolos, th[t].frame)

\* a call has returned detections for a frame that is not of the network's
\* input size
C1_Witness ==
    /\ prog = "tflite"
    /\ \E t \in Threads :
          /\ th[t].pc = "done"
          /\ Len(th[t].result) >= 2
          /\ th[t].height # th[t].image_data.shape[1]
          /\ th[t].width # th[t].image_data.shape[2]

\* what the configuration declares about the model's tensors: the input
\* shape, one output per head (two per TPU head) and, per head,
\* len(mask) * (5 + classes) channels
DeclaredMismatch(config, model) ==
    LET layer_type == LayerType(config.layer_count.yolo_tpu > 0)
        count      == LayerCount(config, layer_type)
        per_head   == IF layer_type = "yolo_tpu" THEN 2 ELSE 1
    IN  \/ InputShapeMismatch(config, InputDetails(model))
        \/ Len(model.out_shapes) # per_head * count
        \/ \E i \in 1..Len(model.out_shapes) :
              LET head == ((i - 1) \div per_head)
              IN  /\ head < count
                  /\ model.out_shapes[i][4] #
                        Len(FindMetalayer(config, layer_type, head).mask)
                        * (5 + FindMetalayer(config, layer_type, head).classes)

\* C2: load_tflite raises whenever the input shape or a head's output shape
\* of the loaded model differs from what the configuration declares
C2_MismatchRaises ==
    (prog = "tflite" /\ hist.loads > 0) =>
       (DeclaredMismatch(det.config, hist.last.model) => hist.last.raised)

\* the head tensors the interpreter computes from thread t's own frame
OwnYolos(t) ==
    LET out == NetOutput(interp.model,
                         NetworkInput(ResizeImage(th[t].frame,
                                                  det.config.net.input_shape),
                                      det.input_float))
    IN  [i \in 1..Len(det.output_details) |-> out[det.output_details[i].index]]

HasRead(t) ==
    th[t].pc \in {"concatenate", "yolo_diou_nms", "fit_to_original", "return", "done"}
    \/ (th[t].pc = "raised" /\ th[t].log = SubSeq(Stages, 1, 6))

\* C6: predict does not serialize: a call that no other call overlapped
\* reads tensors computed from its own frame (two overlapping calls can
\* read tensors computed from the other's frame: the witness)
C6_SerializedCallsOwnFrame ==
    prog = "tflite" =>
       \A t \in Threads :
          (HasRead(t) /\ ~th[t].overlapped) =>
              /\ \A i \in 1..Len(th[t].from) : th[t].from[i] = t
              /\ th[t].igen = interp.gen => th[t].yolos = OwnYolos(t)

\* two calls overlapped and one has returned what the other's frame shows,
\* which is not what its own frame shows
C6_Witness ==
    /\ prog = "tflite"
    /\ \E t \in Threads : \E o \in Threads \ {t} :
          /\ th[t].pc = "done"
          /\ th[t].overlapped
          /\ th[t].from # <<>>
          /\ \A i \in 1..Len(th[t].from) : th[t].from[i] = o
          /\ th[t].igen = interp.gen
          /\ th[o].pc \in {"invoke", "get_tensor"}
          /\ th[t].yolos # OwnYolos(t)
          /\ th[t].yolos = OwnYolos(o)
          /\ th[t].result # ResultOf(OwnYolos(t), th[t].frame)

\* the heads of the layer type the detector selects
SelectedHeads ==
    IF det.config.layer_count.yolo_tpu > 0 THEN det.config.yolo_tpu
    ELSE det.config.yolo

\* C9: after a successful load the detector holds one anchor array and one
\* scale_x_y per head, in head order, row j of head i being
\* anchors[mask_i[j]] / (net.width, net.height), and the beta_nms of the
\* last head alone; predict passes that value to the NMS and leaves all
\* three as they are
C9_LoadedHeads ==
    (prog = "tflite" /\ det.loaded) =>
       LET n == Len(SelectedHeads)
       IN  /\ Len(det.anchors) = n
           /\ Len(det.scale_x_y) = n
           /\ \A i \in 1..n :
                 /\ det.scale_x_y[i] = SelectedHeads[i].scale_x_y
                 /\ Len(det.anchors[i]) = Len(SelectedHeads[i].mask)
                 /\ \A j \in 1..Len(SelectedHeads[i].mask) :
                       det.anchors[i][j] =
                          << <<SelectedHeads[i].anchors[SelectedHeads[i].mask[j] + 1][1],
                               det.config.net.width>>,
                             <<SelectedHeads[i].anchors[SelectedHeads[i].mask[j] + 1][2],
                               det.config.net.height>> >>
           /\ det.beta_nms = SelectedHeads[n].beta_nms
           /\ \A t \in Threads :
                 th[t].pc \in {"fit_to_original", "return", "done"} =>
                    th[t].beta_nms = SelectedHeads[n].beta_nms

\* a predict has run its NMS on a detector whose two heads declare
\* different beta_nms
C9_Witness ==
    /\ prog = "tflite"
    /\ det.loaded
    /\ Len(SelectedHeads) = 2
    /\ SelectedHeads[1].beta_nms # SelectedHeads[2].beta_nms
    /\ \E t \in Threads : th[t].pc = "done" /\ th[t].beta_nms = SelectedHeads[2].beta_nms

\* C10: the interpreter a predict calls into and the input details,
\* output details, anchors, scale_x_y and beta_nms it uses come from the
\* same, successful, load_tflite call
C10_SameLoad ==
    prog = "tflite" => \A t \in Threads : th[t].igen = th[t].dgen

(***************************************************************************)
(* Properties of yolo_diou_nms.                                            *)
(***************************************************************************)
\* C7: running the NMS on its own output, with the same beta_nms, returns
\* the same detections
C7_NmsIdempotent ==
    (prog = "nms" /\ nms.pc = "twice") => nms.again = nms.out

\* the NMS has run twice on a list of which it suppressed a candidate and
\* kept two
C7_Witness ==
    /\ prog = "nms"
    /\ nms.pc = "twice"
    /\ Len(nms.out) = 2
    /\ Len(nms.cands) = 3
    /\ \A i \in 1..3 : Accepted(nms.cands[i])

InSeq(x, seq) == \E i \in 1..Len(seq) : seq[i] = x

\* C8: an accepted candidate is absent from the output only if a kept box
\* of its own predicted class suppresses it; two accepted candidates of
\* different predicted classes are both kept, however they overlap
C8_ClassScoped ==
    (prog = "nms" /\ nms.pc \in {"once", "twice"}) =>
       /\ \A i \in 1..Len(nms.cands) :
             Accepted(nms.cands[i]) =>
                \/ InSeq(nms.cands[i], nms.kept)
                \/ \E k \in 1..Len(nms.kept) :
                      /\ BestClass(nms.kept[k]) = BestClass(nms.cands[i])
                      /\ Suppresses(nms.kept[k], nms.cands[i], nms.beta_nms)
       /\ \A i \in 1..Len(nms.out) : InSeq(nms.out[i], [k \in 1..Len(nms.kept) |-> ToDetection(nms.kept[k])])
       /\ (/\ Len(nms.cands) = 2
           /\ Accepted(nms.cands[1])
           /\ Accepted(nms.cands[2])
           /\ BestClass(nms.cands[1]) # BestClass(nms.cands[2])) =>
              /\ Len(nms.out) = 2
              /\ InSeq(ToDetection(nms.cands[1]), nms.out)
              /\ InSeq(ToDetection(nms.cands[2]), nms.out)

\* two accepted candidates with the same box and different predicted
\* classes have both been kept
C8_Witness ==
    /\ prog = "nms"
    /\ nms.pc = "once"
    /\ Len(nms.cands) = 2
    /\ SubSeq(nms.cands[1], 1, 4) = SubSeq(nms.cands[2], 1, 4)
    /\ BestClass(nms.cands[1]) # BestClass(nms.cands[2])
    /\ Accepted(nms.cands[1]) /\ Accepted(nms.cands[2])
    /\ Len(nms.out) = 2
====
